---- MODULE Spec2Model ----
(***************************************************************************)
(* Model of batcher-rs (src/src/lib.rs): a PolicyBatcher accumulates units *)
(* in a VecBatcher and, after each insertion, asks its PolicyKind whether  *)
(* the pending batch is to be released.                                    *)
(***************************************************************************)
EXTENDS Integers, Sequences, FiniteSets, TLC

\* ------------------------------------------------------------------------
\* Bounds of the exploration
\* ------------------------------------------------------------------------

\* largest threshold N of a BySize(N) policy that is explored
MaxSize == 4

\* largest number of new_unit calls made on one PolicyBatcher
MaxInserts == 4

\* ------------------------------------------------------------------------
\* Units (trait Unit, and the TestUnit identifiers used by the tests)
\* ------------------------------------------------------------------------

\* identifiers: the ones test_policy_kind uses
Ids == {9, 10, 11, 12}

\* payload content of a unit that is not part of its identifier
Payloads == {"a", "b"}

\* a unit: an identifier and a payload
Units == [id : Ids, payload : Payloads]

\* Unit::id
id(u) == u.id

\* ------------------------------------------------------------------------
\* PolicyKind
\* ------------------------------------------------------------------------

BySize(n) == [kind |-> "BySize", max_size |-> n, set |-> {}]

ByList(s) == [kind |-> "ByList", max_size |-> 0, set |-> s]

\* every policy configuration PolicyBatcher::new accepts (within the bounds)
PolicyKind == {BySize(n) : n \in 0..MaxSize} \cup {ByList(s) : s \in SUBSET Ids}

\* impl From<bool> for BatchStatus
BatchStatusFrom(value) == IF value THEN "ReleaseBatch" ELSE "KeepBatching"

\* batch.pending.iter().map(|u| u.id()).collect::<HashSet<ID>>()
IdSet(batch) == {id(batch[i]) : i \in DOMAIN batch}

\* outcome with a strict size comparison (len > max_size)
outcome_StrictSize(pol, batch) ==
    IF pol.kind = "BySize"
    THEN BatchStatusFrom(Len(batch) > pol.max_size)
    ELSE BatchStatusFrom(IdSet(batch) = pol.set)

\* outcome comparing the identifiers as a list: a repeated identifier blocks
outcome_NoDuplicates(pol, batch) ==
    IF pol.kind = "BySize"
    THEN BatchStatusFrom(Len(batch) >= pol.max_size)
    ELSE BatchStatusFrom(IdSet(batch) = pol.set
                            /\ Len(batch) = Cardinality(pol.set))

\* outcome releasing as soon as the identifiers cover the target set
outcome_Superset(pol, batch) ==
    IF pol.kind = "BySize"
    THEN BatchStatusFrom(Len(batch) >= pol.max_size)
    ELSE BatchStatusFrom(pol.set \subseteq IdSet(batch))

\* outcome releasing only when the length is exactly the threshold
outcome_ExactSize(pol, batch) ==
    IF pol.kind = "BySize"
    THEN BatchStatusFrom(Len(batch) = pol.max_size)
    ELSE BatchStatusFrom(IdSet(batch) = pol.set)

\* outcome with a threshold that is off by one (len + 1 >= max_size)
outcome_OffByOne(pol, batch) ==
    IF pol.kind = "BySize"
    THEN BatchStatusFrom(Len(batch) + 1 >= pol.max_size)
    ELSE BatchStatusFrom(IdSet(batch) = pol.set)

\* outcome counting the distinct units (whole values) instead of the length
outcome_DistinctUnits(pol, batch) ==
    IF pol.kind = "BySize"
    THEN BatchStatusFrom(Cardinality({batch[i] : i \in DOMAIN batch}) >= pol.max_size)
    ELSE BatchStatusFrom(IdSet(batch) = pol.set)

\* PolicyKind::outcome, on the pending vector of the backend
outcome(pol, batch) ==
    IF pol.kind = "BySize"
    THEN BatchStatusFrom(Len(batch) >= pol.max_size)
    ELSE BatchStatusFrom(IdSet(batch) = pol.set)

\* ------------------------------------------------------------------------
\* VecBatcher
\* ------------------------------------------------------------------------

\* VecBatcher::new: pending is the empty vector
VecBatcherNew == << >>

\* new_unit that inserts at the front of pending
VecNewUnit_Front(pend, unit) == << unit >> \o pend

\* new_unit that skips a unit whose identifier is already pending
VecNewUnit_Dedup(pend, unit) ==
    IF id(unit) \in IdSet(pend) THEN pend ELSE Append(pend, unit)

\* VecBatcher::new_unit: push at the end of pending
VecNewUnit(pend, unit) == Append(pend, unit)

\* release that clones pending instead of taking it
VecRelease_Clone(pend) == [out |-> pend, pending |-> pend]

\* VecBatcher::release: mem::take returns pending and leaves the default
VecRelease(pend) == [out |-> pend, pending |-> << >>]

\* ------------------------------------------------------------------------
\* Return values
\* ------------------------------------------------------------------------

None == [tag |-> "None", batch |-> << >>]

Some(b) == [tag |-> "Some", batch |-> b]

Vec(b) == [tag |-> "Vec", batch |-> b]

\* ------------------------------------------------------------------------
\* State of one PolicyBatcher and of its caller
\* ------------------------------------------------------------------------

VARIABLES
    policy,     \* PolicyBatcher.policy
    pending,    \* PolicyBatcher.backend.pending
    state,      \* "Open" while the caller owns the value, "Consumed" once moved
    lastOp,     \* the last operation performed: "new", "new_unit" or "release"
    ret,        \* what the last operation returned
    inserted,   \* every unit passed to new_unit so far, in call order
    outs        \* what each new_unit call returned, in call order

vars == << policy, pending, state, lastOp, ret, inserted, outs >>

\* PolicyBatcher::new(policy)
Init ==
    /\ policy \in PolicyKind
    /\ pending = VecBatcherNew
    /\ state = "Open"
    /\ lastOp = "new"
    /\ ret = None
    /\ inserted = << >>
    /\ outs = << >>

\* the body of PolicyBatcher::new_unit on a policy and a pending vector: what
\* the call returns and the pending vector it leaves
new_unit(pol, pend, unit) ==
    LET pushed == VecNewUnit(pend, unit)
    IN IF outcome(pol, pushed) = "KeepBatching"
       THEN [ret |-> None, pending |-> pushed]
       ELSE [ret |-> Some(VecRelease(pushed).out),
             pending |-> VecRelease(pushed).pending]

\* new_unit that consults the policy before it pushes the unit
NewUnit_PolicyFirst(unit) ==
    /\ state = "Open"
    /\ Len(inserted) < MaxInserts
    /\ LET r == IF outcome(policy, pending) = "KeepBatching"
                THEN [ret |-> None, pending |-> VecNewUnit(pending, unit)]
                ELSE [ret |-> Some(VecRelease(pending).out),
                      pending |-> VecNewUnit(VecRelease(pending).pending, unit)]
       IN /\ pending' = r.pending
          /\ ret' = r.ret
          /\ outs' = Append(outs, r.ret)
    /\ inserted' = Append(inserted, unit)
    /\ lastOp' = "new_unit"
    /\ UNCHANGED << policy, state >>

\* PolicyBatcher::new_unit(&mut self, unit)
NewUnit(unit) ==
    /\ state = "Open"
    /\ Len(inserted) < MaxInserts
    /\ LET r == new_unit(policy, pending, unit)
       IN /\ pending' = r.pending
          /\ ret' = r.ret
          /\ outs' = Append(outs, r.ret)
    /\ inserted' = Append(inserted, unit)
    /\ lastOp' = "new_unit"
    /\ UNCHANGED << policy, state >>

\* release that drains the backend and then returns its (empty) pending
Release_AfterDrain ==
    /\ state = "Open"
    /\ ret' = Vec(VecRelease(pending).pending)
    /\ pending' = VecRelease(pending).pending
    /\ state' = "Consumed"
    /\ lastOp' = "release"
    /\ UNCHANGED << policy, inserted, outs >>

\* release that borrows the batcher (&mut self) and leaves it usable
Release_Borrow ==
    /\ state = "Open"
    /\ ret' = Vec(VecRelease(pending).out)
    /\ pending' = VecRelease(pending).pending
    /\ state' = "Open"
    /\ lastOp' = "release"
    /\ UNCHANGED << policy, inserted, outs >>

\* PolicyBatcher::release(mut self): takes the batcher by value
Release ==
    /\ state = "Open"
    /\ ret' = Vec(VecRelease(pending).out)
    /\ pending' = VecRelease(pending).pending
    /\ state' = "Consumed"
    /\ lastOp' = "release"
    /\ UNCHANGED << policy, inserted, outs >>

\* a second PolicyBatcher after a new_unit call whose result is r: run is its
\* pending vector and what its calls returned before
ReplayReturn(run, r) ==
    [pending |-> r.pending, outs |-> Append(run.outs, r.ret)]

\* one more new_unit call on a second PolicyBatcher
ReplayStep(pol, run, unit) ==
    ReplayReturn(run, new_unit(pol, run.pending, unit))

\* a second PolicyBatcher, constructed with policy pol and fed the units of
\* seq one new_unit call at a time: the pending vector it ends with and what
\* each call returned
RECURSIVE ReplayFrom(_, _, _, _)
ReplayFrom(pol, run, seq, i) ==
    IF i > Len(seq)
    THEN run
    ELSE ReplayFrom(pol, ReplayStep(pol, run, seq[i]), seq, i + 1)

Replay(pol, seq) ==
    ReplayFrom(pol, [pending |-> VecBatcherNew, outs |-> << >>], seq, 1)

Next ==
    \/ \E unit \in Units : NewUnit(unit)
    \/ Release

Spec == Init /\ [][Next]_vars

\* ------------------------------------------------------------------------
\* Helpers of the properties
\* ------------------------------------------------------------------------

\* the identifiers of a sequence of units, in order
IdsOf(s) == [i \in DOMAIN s |-> id(s[i])]

\* number of new_unit calls made so far
Calls == Len(inserted)

TypeOK ==
    /\ policy \in PolicyKind
    /\ pending \in Seq(Units)
    /\ state \in {"Open", "Consumed"}
    /\ lastOp \in {"new", "new_unit", "release"}
    /\ Len(outs) = Len(inserted)

\* the unit passed to the new_unit call that a step performs
Arg == inserted'[Len(inserted')]

\* a step is a call of new_unit
IsNewUnit == lastOp' = "new_unit" /\ Len(inserted') = Len(inserted) + 1

\* a step is a call of release
IsRelease == lastOp' = "release"

\* ------------------------------------------------------------------------
\* C1: size threshold, first batch
\* ------------------------------------------------------------------------

\* C1: under BySize(N) with N >= 1, on a freshly constructed PolicyBatcher,
\* each of the first N-1 calls of new_unit returns None, and the N-th call
\* returns Some(batch) where batch is the N inserted units in insertion order.
C1_FirstBatchBySize ==
    (policy.kind = "BySize" /\ policy.max_size >= 1) =>
        /\ \A k \in 1..Calls : k < policy.max_size => outs[k] = None
        /\ Calls >= policy.max_size =>
              outs[policy.max_size] = Some(SubSeq(inserted, 1, policy.max_size))

\* the N-th call under BySize(N), N >= 2, has just returned
C1_Witness ==
    /\ policy.kind = "BySize"
    /\ policy.max_size >= 2
    /\ Calls = policy.max_size
    /\ lastOp = "new_unit"
    /\ ret.tag = "Some"

\* ------------------------------------------------------------------------
\* C2: target set, release on equality
\* ------------------------------------------------------------------------

\* scenario C: ByList({10,11,12}), insert 10, 11, 12
C2_ScenarioC ==
    (policy = ByList({10, 11, 12}) /\ IdsOf(inserted) = << 10, 11, 12 >>) =>
        outs = << None, None, Some(inserted) >>

\* C2: under ByList(S), the new_unit call that makes the set of distinct
\* identifiers of the units of the current batch equal to S returns
\* Some(batch), where batch is every unit of the current batch, duplicates by
\* identifier included, in insertion order.
C2_ReleaseOnEquality ==
    [][ /\ (IsNewUnit /\ policy.kind = "ByList"
              /\ IdSet(Append(pending, Arg)) = policy.set)
            => ret' = Some(Append(pending, Arg))
        /\ C2_ScenarioC' ]_vars

\* a target-set release whose batch holds a repeated identifier
C2_Witness ==
    /\ policy.kind = "ByList"
    /\ lastOp = "new_unit"
    /\ ret.tag = "Some"
    /\ IdSet(ret.batch) = policy.set
    /\ Len(ret.batch) > Cardinality(policy.set)

\* ------------------------------------------------------------------------
\* C3: target set, no release without equality
\* ------------------------------------------------------------------------

\* scenario B and the test case "ByList test with different list"
C3_ScenarioB ==
    /\ (policy = ByList({10, 11, 12}) /\ IdsOf(inserted) = << 10, 9, 12 >>)
          => outs = << None, None, None >>
    /\ (policy = ByList({10, 9, 12}) /\ IdsOf(inserted) = << 10, 11, 12 >>)
          => outs = << None, None, None >>

\* C3: under ByList(S) with S non-empty, a new_unit call after which the set
\* of distinct identifiers of the accumulated units differs from S returns
\* None (and keeps the units), whether that set is a proper subset of S, a
\* proper superset of S or overlaps S.
C3_NoReleaseWithoutEquality ==
    [][ /\ (IsNewUnit /\ policy.kind = "ByList" /\ policy.set # {}
              /\ IdSet(Append(pending, Arg)) # policy.set)
            => (ret' = None /\ pending' = Append(pending, Arg))
        /\ C3_ScenarioB' ]_vars

\* new_unit returned None although the accumulated identifiers contain all of S
C3_Witness ==
    /\ policy.kind = "ByList"
    /\ policy.set # {}
    /\ lastOp = "new_unit"
    /\ ret = None
    /\ policy.set \subseteq IdSet(pending)
    /\ policy.set # IdSet(pending)
    /\ Len(pending) = MaxInserts

\* ------------------------------------------------------------------------
\* C4: reset after a policy-triggered release
\* ------------------------------------------------------------------------

\* scenario A: BySize(2), insert 10, 11, 12
C4_ScenarioA ==
    (policy = BySize(2) /\ IdsOf(inserted) = << 10, 11, 12 >>
        /\ lastOp = "new_unit") =>
        /\ outs = << None, Some(SubSeq(inserted, 1, 2)), None >>
        /\ pending = << inserted[3] >>

\* C4: after a new_unit call that returned Some(batch) the accumulator is
\* empty and the facade is Open, and the next new_unit starts a batch that
\* holds the newly inserted unit only.
C4_FreshBatchAfterRelease ==
    [][ /\ (lastOp = "new_unit" /\ ret.tag = "Some") =>
              /\ pending = << >>
              /\ state = "Open"
              /\ IsNewUnit =>
                    IF ret'.tag = "Some"
                    THEN ret'.batch = << Arg >> /\ pending' = << >>
                    ELSE pending' = << Arg >>
        /\ C4_ScenarioA' ]_vars

\* scenario A has run to its end
C4_Witness ==
    /\ policy = BySize(2)
    /\ IdsOf(inserted) = << 10, 11, 12 >>
    /\ lastOp = "new_unit"
    /\ outs[2].tag = "Some"
    /\ pending = << inserted[3] >>

\* ------------------------------------------------------------------------
\* C5: forced release
\* ------------------------------------------------------------------------

\* scenario D: BySize(4), insert 10, 11, 12, then release
C5_ScenarioD ==
    (policy = BySize(4) /\ IdsOf(inserted) = << 10, 11, 12 >>
        /\ lastOp = "release") =>
        /\ ret = Vec(inserted)
        /\ outs = << None, None, None >>

\* C5: in an Open state, whatever the policy, release returns exactly the
\* units accumulated, in insertion order; that is the empty sequence on a
\* fresh facade and directly after a policy-triggered release.
C5_ForcedRelease ==
    [][ /\ IsRelease => ret' = Vec(pending)
        /\ (IsRelease /\ (lastOp = "new" \/ (lastOp = "new_unit" /\ ret.tag = "Some")))
              => ret' = Vec(<< >>)
        /\ C5_ScenarioD' ]_vars

\* scenario D has run to its end
C5_Witness ==
    /\ policy = BySize(4)
    /\ lastOp = "release"
    /\ IdsOf(ret.batch) = << 10, 11, 12 >>
    /\ state = "Consumed"

\* ------------------------------------------------------------------------
\* C6: Open and Consumed
\* ------------------------------------------------------------------------

\* C6: the facade starts Open; every operation is performed on an Open
\* facade (none occurs once it is Consumed); new_unit leaves it Open whatever
\* it returns; a step makes it Consumed exactly when the step is release.
C6_Lifecycle ==
    /\ state = "Open"
    /\ [][ /\ state = "Open"
           /\ state' \in {"Open", "Consumed"}
           /\ IsNewUnit => state' = "Open"
           /\ (state' = "Consumed") <=> IsRelease ]_vars

\* release has consumed a facade that holds units
C6_Witness ==
    /\ state = "Consumed"
    /\ lastOp = "release"
    /\ Calls >= 2
    /\ ret.batch # << >>

\* ------------------------------------------------------------------------
\* C7: the two outcomes of new_unit
\* ------------------------------------------------------------------------

\* new_unit accepts every unit on an Open facade, whatever the policy
C7_Accepted ==
    (state = "Open" /\ Calls < MaxInserts) =>
        \A unit \in Units : ENABLED NewUnit(unit)

\* C7: for every policy configuration, BySize(0) and ByList({}) included,
\* a new_unit call on an Open facade is accepted and either returns None with
\* the unit appended to the accumulator, or returns Some(batch) with the
\* accumulator drained; there is no other outcome.
C7_TwoOutcomes ==
    /\ []C7_Accepted
    /\ [][ IsNewUnit =>
             \/ ret' = None /\ pending' = Append(pending, Arg)
             \/ ret'.tag = "Some" /\ pending' = << >> ]_vars

\* new_unit has been called twice under the empty target set
C7_Witness ==
    /\ policy = ByList({})
    /\ lastOp = "new_unit"
    /\ Calls = 2
    /\ ret = None
    /\ pending = inserted

\* ------------------------------------------------------------------------
\* C8: frame of a keep-batching new_unit
\* ------------------------------------------------------------------------

\* C8: a new_unit call that returns None appends the new unit at the end of
\* the accumulated sequence and changes nothing else: the units accumulated
\* before, their order and the policy are as before; the policy never changes
\* in any step.
C8_KeepBatchingFrame ==
    [][ /\ policy' = policy
        /\ (IsNewUnit /\ ret'.tag = "None") =>
              /\ Len(pending') = Len(pending) + 1
              /\ SubSeq(pending', 1, Len(pending)) = pending
              /\ pending'[Len(pending')] = Arg
              /\ state' = state ]_vars

\* new_unit kept batching on top of two different accumulated units
C8_Witness ==
    /\ lastOp = "new_unit"
    /\ ret = None
    /\ Len(pending) >= 3
    /\ pending[1] # pending[2]
    /\ pending[2] # pending[3]

\* ------------------------------------------------------------------------
\* C9: BySize(0)
\* ------------------------------------------------------------------------

\* C9: under BySize(0) every new_unit call, the first included, returns the
\* batch that holds just the inserted unit, and the accumulator is empty
\* between any two operations.
C9_ZeroThreshold ==
    policy = BySize(0) =>
        /\ pending = << >>
        /\ \A k \in 1..Calls : outs[k] = Some(<< inserted[k] >>)

\* two new_unit calls have been made under BySize(0)
C9_Witness ==
    /\ policy = BySize(0)
    /\ lastOp = "new_unit"
    /\ Calls >= 2
    /\ ret = Some(<< inserted[Calls] >>)

\* ------------------------------------------------------------------------
\* C10: the test case "BySize test exact number"
\* ------------------------------------------------------------------------

\* the inputs of the test case: 10, 11, 12 inserted one at a time
C10_TestInserted == IdsOf(inserted) = << 10, 11, 12 >> /\ lastOp = "new_unit"

C11_HasForeign == \E i \in DOMAIN pending : id(pending[i]) \notin policy.set

\* C11: under ByList(S), once the accumulated sequence holds a unit whose
\* identifier is not in S, every later new_unit call returns None and the
\* batch keeps growing (so it still holds that unit); the units are returned
\* by a forced release only.  In terms of the whole run: from the first
\* insertion of such an identifier on, no new_unit call returns a batch.
C11_ForeignBlocksRelease ==
    /\ [](policy.kind = "ByList" =>
            \A j \in 1..Calls : id(inserted[j]) \notin policy.set =>
                \A k \in j..Calls : outs[k] = None)
    /\ [][ (policy.kind = "ByList" /\ C11_HasForeign) =>
              /\ IsNewUnit => (ret' = None /\ pending' = Append(pending, Arg)
                                /\ C11_HasForeign')
              /\ IsRelease => ret' = Vec(pending) ]_vars

\* a forced release returned a batch that covers S and holds a foreign unit
C11_Witness ==
    /\ policy.kind = "ByList"
    /\ policy.set # {}
    /\ lastOp = "release"
    /\ Calls >= 3
    /\ ret.batch = inserted
    /\ id(inserted[1]) \notin policy.set
    /\ policy.set \subseteq IdSet(inserted)

\* ------------------------------------------------------------------------
\* C12: append first, then one policy evaluation
\* ------------------------------------------------------------------------

\* the release rule of a policy on a sequence of units, as the documentation
\* of PolicyKind states it
C12_Rule(seq) ==
    IF policy.kind = "BySize"
    THEN Len(seq) >= policy.max_size
    ELSE {seq[i].id : i \in 1..Len(seq)} = policy.set

\* C12: every new_unit call decides on the accumulated contents that include
\* the new unit: it returns a batch exactly when the policy's rule holds of
\* the contents with the unit appended; hence a returned batch is non-empty
\* and its last element is the unit passed to the call.
C12_AppendThenEvaluate ==
    [][ IsNewUnit =>
          /\ (ret'.tag = "Some") <=> C12_Rule(Append(pending, Arg))
          /\ ret'.tag = "Some" =>
                /\ ret'.batch # << >>
                /\ ret'.batch[Len(ret'.batch)] = Arg
                /\ ret'.batch = Append(pending, Arg) ]_vars

\* a target-set release of several units, the last being the one inserted
C12_Witness ==
    /\ policy.kind = "ByList"
    /\ lastOp = "new_unit"
    /\ ret.tag = "Some"
    /\ Len(ret.batch) >= 3
    /\ ret.batch[Len(ret.batch)] = inserted[Calls]
    /\ ret.batch[1] # ret.batch[Len(ret.batch)]

\* ------------------------------------------------------------------------
\* C13: the release decision does not depend on payloads
\* ------------------------------------------------------------------------

\* the units of seq with their payloads replaced by p
C13_WithPayload(seq, p) ==
    [i \in DOMAIN seq |-> [id |-> seq[i].id, payload |-> p]]

\* what a caller sees of a facade apart from the payloads: for each new_unit
\* call whether it returned a batch and the identifiers of the batch, and the
\* identifiers left pending
C13_Visible(run) ==
    [outs |-> [k \in DOMAIN run.outs |->
                  [tag |-> run.outs[k].tag, ids |-> IdsOf(run.outs[k].batch)]],
     pending |-> IdsOf(run.pending)]

\* C13: a second facade with the same policy, fed units that carry the same
\* identifier at every position but other payloads (every payload replaced by
\* one value p, for each p), returns None and Some at the same insertions as
\* this facade, with batches of the same lengths and identifier sequences,
\* and is left with the same pending identifiers.
\* Every sequence of units is fed to this facade in some behaviour, so any
\* two facades fed the same identifiers agree with the same second facade,
\* hence with each other.
C13_PayloadIndependence ==
    state = "Open" =>
        \A p \in Payloads :
            C13_Visible(Replay(policy, C13_WithPayload(inserted, p)))
               = C13_Visible([outs |-> outs, pending |-> pending])

\* a batch was released that holds the same identifier with two payloads
C13_Witness ==
    /\ lastOp = "new_unit"
    /\ ret.tag = "Some"
    /\ Len(ret.batch) >= 2
    /\ \E i, j \in DOMAIN ret.batch :
          /\ ret.batch[i].id = ret.batch[j].id
          /\ ret.batch[i].payload # ret.batch[j].payload

\* ------------------------------------------------------------------------
\* C14: no deduplication
\* ------------------------------------------------------------------------

\* the first n inserted units all carry the same identifier
C14_SameId(n) == \A i \in 1..n : id(inserted[i]) = id(inserted[1])

\* C14: a unit whose identifier is already accumulated is stored as one more
\* element; under BySize(N), N >= 1, N units with the same identifier are
\* released by the N-th insertion as a batch of N elements.
C14_NoDeduplication ==
    /\ []((policy.kind = "BySize" /\ policy.max_size >= 1
              /\ Calls >= policy.max_size /\ C14_SameId(policy.max_size)) =>
            /\ \A k \in 1..(policy.max_size - 1) : outs[k] = None
            /\ outs[policy.max_size].tag = "Some"
            /\ Len(outs[policy.max_size].batch) = policy.max_size
            /\ outs[policy.max_size].batch = SubSeq(inserted, 1, policy.max_size))
    /\ [][ (IsNewUnit /\ id(Arg) \in IdSet(pending)) =>
              IF ret'.tag = "Some"
              THEN ret'.batch = Append(pending, Arg)
              ELSE pending' = Append(pending, Arg) ]_vars

\* three or more units with one identifier were released under BySize
C14_Witness ==
    /\ policy.kind = "BySize"
    /\ policy.max_size >= 3
    /\ Calls = policy.max_size
    /\ C14_SameId(Calls)
    /\ lastOp = "new_unit"
    /\ ret.tag = "Some"
    /\ Len(ret.batch) = policy.max_size

\* ------------------------------------------------------------------------
\* C15: periodic release under BySize
\* ------------------------------------------------------------------------

\* C15: under BySize(N), N >= 1, new_unit returns a batch at the insertions
\* numbered N, 2N, 3N, ... and at no other; the batch returned by insertion
\* kN is the insertions (k-1)N+1 .. kN in order; between operations fewer
\* than N units are accumulated.
C15_PeriodicRelease ==
    (policy.kind = "BySize" /\ policy.max_size >= 1) =>
        /\ \A k \in 1..Calls :
              IF k % policy.max_size = 0
              THEN outs[k] = Some(SubSeq(inserted, k - policy.max_size + 1, k))
              ELSE outs[k] = None
        /\ Len(pending) < policy.max_size

\* a second batch was released under BySize(2)
C15_Witness ==
    /\ policy = BySize(2)
    /\ Calls = 4
    /\ lastOp = "new_unit"
    /\ outs[2].tag = "Some"
    /\ ret = Some(SubSeq(inserted, 3, 4))
    /\ inserted[1] # inserted[3]

\* ------------------------------------------------------------------------
\* C16: conservation of units
\* ------------------------------------------------------------------------

\* the batches returned by the first k new_unit calls, concatenated
RECURSIVE C16_Delivered(_)
C16_Delivered(k) ==
    IF k = 0 THEN << >> ELSE C16_Delivered(k - 1) \o outs[k].batch

\* C16: the batches returned by new_unit, in the order returned, followed by
\* the units still accumulated (by the result of release once it was called)
\* are the inserted units in insertion order.
C16_Conservation ==
    /\ lastOp # "release" => C16_Delivered(Calls) \o pending = inserted
    /\ lastOp = "release" =>
          /\ C16_Delivered(Calls) \o ret.batch = inserted
          /\ pending = << >>

\* release returned a remainder after new_unit had returned a batch
C16_Witness ==
    /\ lastOp = "release"
    /\ ret.batch # << >>
    /\ Len(C16_Delivered(Calls)) >= 2
    /\ \E k \in 1..Calls : outs[k].tag = "Some" /\ Len(outs[k].batch) >= 2

\* ------------------------------------------------------------------------
\* C17: target set, what is never pending and what is released
\* ------------------------------------------------------------------------

\* C17: under ByList(S) with S non-empty, between operations the set of
\* distinct identifiers of the accumulated units differs from S; every batch
\* returned by new_unit has exactly the identifiers S, and the identifier of
\* its last unit occurs nowhere earlier in it.
C17_TargetSetInvariant ==
    (policy.kind = "ByList" /\ policy.set # {}) =>
        /\ {pending[i].id : i \in 1..Len(pending)} # policy.set
        /\ \A k \in 1..Calls : outs[k].tag = "Some" =>
              LET batch == outs[k].batch
              IN /\ batch # << >>
                 /\ {batch[i].id : i \in 1..Len(batch)} = policy.set
                 /\ \A i \in 1..(Len(batch) - 1) :
                       batch[i].id # batch[Len(batch)].id

\* a target-set batch with a repeated identifier was released and units of
\* the next batch are pending
C17_Witness ==
    /\ policy.kind = "ByList"
    /\ Cardinality(policy.set) >= 2
    /\ state = "Open"
    /\ pending # << >>
    /\ \E k \in 1..Calls :
          outs[k].tag = "Some" /\ Len(outs[k].batch) > Cardinality(policy.set)

\* ------------------------------------------------------------------------
\* C18: ByList of the empty set
\* ------------------------------------------------------------------------

\* C18: under ByList({}) no new_unit call returns a batch, although the
\* empty accumulator of a fresh facade has exactly the identifiers of the
\* policy; every inserted unit stays accumulated and release returns them
\* all.
C18_EmptyTargetSet ==
    policy = ByList({}) =>
        /\ \A k \in 1..Calls : outs[k] = None
        /\ lastOp = "new" =>
              {pending[i].id : i \in 1..Len(pending)} = policy.set
        /\ lastOp = "new_unit" => (ret = None /\ pending = inserted)
        /\ lastOp = "release" => ret = Vec(inserted)

\* release returned the units inserted under ByList({})
C18_Witness ==
    /\ policy = ByList({})
    /\ lastOp = "release"
    /\ Calls >= 2
    /\ ret.batch = inserted
    /\ \A k \in 1..Calls : outs[k].tag = "None"

\* ------------------------------------------------------------------------
\* C19: VecBatcher::release
\* ------------------------------------------------------------------------

\* C19: VecBatcher::release returns all the units held, in insertion order,
\* and leaves the accumulator empty; a second drain with no append in between
\* returns the empty sequence.  This holds of the drain of every accumulated
\* sequence, and of the two drains the facade performs: the one of a
\* new_unit call that returns a batch and the one of release, which returns
\* the empty sequence when it directly follows the former.
C19_Drain ==
    /\ [](/\ VecRelease(pending).out = pending
          /\ VecRelease(pending).pending = << >>
          /\ VecRelease(VecRelease(pending).pending).out = << >>
          /\ VecRelease(VecRelease(pending).pending).pending = << >>)
    /\ [][ /\ (IsNewUnit /\ ret'.tag = "Some") =>
                 (ret'.batch = Append(pending, Arg) /\ pending' = << >>)
           /\ IsRelease => (ret'.batch = pending /\ pending' = << >>)
           /\ (IsRelease /\ lastOp = "new_unit" /\ ret.tag = "Some") =>
                 ret'.batch = << >> ]_vars

\* release drained the accumulator right after new_unit had drained it
C19_Witness ==
    /\ lastOp = "release"
    /\ ret = Vec(<< >>)
    /\ Calls >= 2
    /\ outs[Calls].tag = "Some"
    /\ Len(outs[Calls].batch) >= 2

====
